---- MODULE Spec2Model ----
(***************************************************************************)
(* Model of lambda-monitoring: monitor_lambda_runs.py (the batch pipeline  *)
(* get_request_ids -> get_run_events -> analyze_run_events ->              *)
(* create_topic_message -> publish_run_info) and format_request_events.py  *)
(* (create_message_subject, format_log_event, create_message_body).       *)
(*                                                                         *)
(* Python dicts are records; an optional key is a field that is or is not  *)
(* in the record's DOMAIN.  A str is a sequence of one-character strings,  *)
(* so that str.startswith is a real prefix test.  A failed assert is       *)
(* recorded in the variable error under the name of its message.           *)
(***************************************************************************)
EXTENDS Integers, Sequences, FiniteSets

VARIABLES
    pc,         \* position in process_lambda_events / process_lambda_run
    batch,      \* subscription_event['logEvents'], the handler's input
    dry_run,    \* context['dry_run']
    logs,       \* the log source: request id -> chain of result pages
    ids,        \* the list get_request_ids returned
    idx,        \* position of the for loop of process_lambda_events in ids
    results,    \* get_run_events: the last answer of filter_log_events
    events,     \* get_run_events: the accumulated events; then the analyzer's input
    requests,   \* history: the filter_log_events calls made, in order
    info,       \* the dict analyze_run_events returned
    subject,    \* the subject create_topic_message returned
    message,    \* the body create_topic_message returned
    snsCalls,   \* history: the sns.publish calls made, in order
    responses,  \* history: what each publish_run_info call returned
    trace,      \* history: the pipeline steps taken, in order
    error       \* the assertion that ended the run, "none" while there is none

vars == <<pc, batch, dry_run, logs, ids, idx, results, events, requests, info,
          subject, message, snsCalls, responses, trace, error>>

----------------------------------------------------------------------------
(* Bounds of the model. *)

MaxBatch == 3        \* log events in one subscription batch
MaxEvents == 3       \* log events handed to analyze_run_events
MaxTimestamp == 2    \* timestamps range over 0..MaxTimestamp
MaxPages == 3        \* result pages the log source holds for one request
MaxPageLen == 2      \* events in one result page
MaxCount == 3        \* [ERROR] / [WARNING] lines in one generated run

----------------------------------------------------------------------------
(* Strings. *)

START == <<"S", "T", "A", "R", "T">>
END == <<"E", "N", "D">>
ERROR == <<"[", "E", "R", "R", "O", "R", "]">>
WARNING == <<"[", "W", "A", "R", "N", "I", "N", "G", "]">>

\* str.startswith
StartsWith(str, prefix) ==
    /\ Len(str) >= Len(prefix)
    /\ SubSeq(str, 1, Len(prefix)) = prefix

\* Sample log lines: the four markers, and a line that holds a marker but
\* does not begin with it.
Messages ==
    { START \o <<" ", "r">>,
      END \o <<" ", "r">>,
      ERROR \o <<" ", "x">>,
      WARNING \o <<" ", "x">>,
      <<" ">> \o START }

Timestamps == 0 .. MaxTimestamp

\* A LogEvent of a request's log trace; the key 'message' is optional.
LogEvents ==
    [timestamp : Timestamps, message : Messages] \cup [timestamp : {1}]

RECURSIVE SeqsUpTo(_, _)
SeqsUpTo(S, n) ==
    IF n = 0 THEN {<<>>}
    ELSE LET shorter == SeqsUpTo(S, n - 1)
         IN  shorter \cup {Append(s, x) : s \in {t \in shorter : Len(t) = n - 1}, x \in S}

RequestIds == {"a", "b"}

\* extractedFields of a subscription log event: 'type' and 'requestId' are
\* each optional.
ExtractedFields ==
    [type : {"END", "START"}, requestId : RequestIds]
        \cup [type : {"END", "START"}]
        \cup [requestId : RequestIds]

\* A log event of a subscription batch; the key 'extractedFields' is optional.
BatchEvents ==
    [timestamp : {1}, extractedFields : ExtractedFields] \cup [timestamp : {1}]

----------------------------------------------------------------------------
(* get_request_ids *)

IsEndWithId(event) ==
    /\ "extractedFields" \in DOMAIN event
    /\ "type" \in DOMAIN event.extractedFields
    /\ event.extractedFields.type = "END"
    /\ "requestId" \in DOMAIN event.extractedFields

CollectIds(evs) ==
    LET sel == SelectSeq(evs, IsEndWithId)
    IN  [i \in 1 .. Len(sel) |-> sel[i].extractedFields.requestId]

SetOf(s) == {s[i] : i \in 1 .. Len(s)}

GetRequestIdsNoDupCheck(evs) ==
    LET found == CollectIds(evs)
    IN  IF Len(found) = 0 THEN [error |-> "NoEndEvents", ids |-> <<>>]
        ELSE [error |-> "none", ids |-> found]

GetRequestIdsAnyFields(evs) ==
    LET sel == SelectSeq(evs, LAMBDA e :
                   /\ "extractedFields" \in DOMAIN e
                   /\ "requestId" \in DOMAIN e.extractedFields)
        found == [i \in 1 .. Len(sel) |-> sel[i].extractedFields.requestId]
    IN  IF Len(found) = 0 THEN [error |-> "NoEndEvents", ids |-> <<>>]
        ELSE IF Len(found) # Cardinality(SetOf(found))
             THEN [error |-> "DuplicateIds", ids |-> <<>>]
        ELSE [error |-> "none", ids |-> found]

get_request_ids(evs) ==
    LET found == CollectIds(evs)
    IN  IF Len(found) = 0 THEN [error |-> "NoEndEvents", ids |-> <<>>]
        ELSE IF Len(found) # Cardinality(SetOf(found))
             THEN [error |-> "DuplicateIds", ids |-> <<>>]
        ELSE [error |-> "none", ids |-> found]

----------------------------------------------------------------------------
(* analyze_run_events *)

NoInfo == [start |-> 0, end |-> 0, duration |-> 0, errors |-> 0, warnings |-> 0]

\* One iteration of the for loop: acc holds errors, warnings, startts, endts.
AnalyzeStep(acc, event) ==
    IF "message" \notin DOMAIN event THEN acc
    ELSE IF StartsWith(event.message, START)
         THEN [acc EXCEPT !.startts = event.timestamp]
    ELSE IF StartsWith(event.message, END)
         THEN [acc EXCEPT !.endts = event.timestamp]
    ELSE IF StartsWith(event.message, ERROR)
         THEN [acc EXCEPT !.errors = acc.errors + 1]
    ELSE IF StartsWith(event.message, WARNING)
         THEN [acc EXCEPT !.warnings = acc.warnings + 1]
    ELSE acc

RECURSIVE AnalyzeLoop(_, _)
AnalyzeLoop(evs, n) ==
    IF n = 0 THEN [errors |-> 0, warnings |-> 0, startts |-> 0, endts |-> 0]
    ELSE AnalyzeStep(AnalyzeLoop(evs, n - 1), evs[n])

AnalyzeNoStartCheck(evs) ==
    LET acc == AnalyzeLoop(evs, Len(evs))
    IN  IF Len(evs) = 0 THEN [error |-> "NoEvents", info |-> NoInfo]
        ELSE IF ~(acc.endts > 0) THEN [error |-> "NoEnd", info |-> NoInfo]
        ELSE [error |-> "none",
              info |-> [start |-> acc.startts, end |-> acc.endts,
                        duration |-> acc.endts - acc.startts,
                        errors |-> acc.errors, warnings |-> acc.warnings]]

AnalyzeCountsSwapped(evs) ==
    LET acc == AnalyzeLoop(evs, Len(evs))
    IN  IF Len(evs) = 0 THEN [error |-> "NoEvents", info |-> NoInfo]
        ELSE IF ~(acc.startts > 0) THEN [error |-> "NoStart", info |-> NoInfo]
        ELSE IF ~(acc.endts > 0) THEN [error |-> "NoEnd", info |-> NoInfo]
        ELSE [error |-> "none",
              info |-> [start |-> acc.startts, end |-> acc.endts,
                        duration |-> acc.endts - acc.startts,
                        errors |-> acc.warnings, warnings |-> acc.errors]]

analyze_run_events(evs) ==
    LET acc == AnalyzeLoop(evs, Len(evs))
    IN  IF Len(evs) = 0 THEN [error |-> "NoEvents", info |-> NoInfo]
        ELSE IF ~(acc.startts > 0) THEN [error |-> "NoStart", info |-> NoInfo]
        ELSE IF ~(acc.endts > 0) THEN [error |-> "NoEnd", info |-> NoInfo]
        ELSE [error |-> "none",
              info |-> [start |-> acc.startts, end |-> acc.endts,
                        duration |-> acc.endts - acc.startts,
                        errors |-> acc.errors, warnings |-> acc.warnings]]

----------------------------------------------------------------------------
(* create_message_subject and the status of publish_run_info *)

display_name == "fn"

SubjectBase == <<display_name, " request completed">>

SubjectWarningsFirst(inf) ==
    IF inf.warnings > 0 THEN SubjectBase \o <<" with WARNINGS!">>
    ELSE IF inf.errors > 0 THEN SubjectBase \o <<" with ERRORS!">>
    ELSE SubjectBase

create_message_subject(inf) ==
    IF inf.errors > 0 THEN SubjectBase \o <<" with ERRORS!">>
    ELSE IF inf.warnings > 0 THEN SubjectBase \o <<" with WARNINGS!">>
    ELSE SubjectBase

Status(inf) ==
    IF inf.errors > 0 THEN "error"
    ELSE IF inf.warnings > 0 THEN "warning"
    ELSE "success"

\* The response publish_run_info makes up in a dry run.
DummyResponse == [MessageId |-> "12345"]

\* The acknowledgements sns.publish can answer with.
SnsResponses == {[MessageId |-> "m1"], [MessageId |-> "m2"]}

----------------------------------------------------------------------------
(* format_log_event and create_message_body *)

MillisPerSecond == 1000

TagWidth == 7

REPORT == <<"R", "E", "P", "O", "R", "T">>

Newline == "\n"

\* The characters the pattern's \s matches, for a str pattern: those of
\* str.isspace.  Beside the five that have an escape these are U+000B,
\* U+001C to U+001F, U+0085, U+00A0 and U+1680, written as themselves.  The
\* others (U+2000 to U+200A, U+2028, U+2029, U+202F, U+205F, U+3000) cannot
\* be written in a string of this module, so no message here holds them.
Whitespace ==
    {" ", "\t", "\n", "\r", "\f",
     "", "", "", "", "", "", " ", " "}

\* The characters the pattern's [A-Z] matches.
UpperCase ==
    {"A", "B", "C", "D", "E", "F", "G", "H", "I", "J", "K", "L", "M",
     "N", "O", "P", "Q", "R", "S", "T", "U", "V", "W", "X", "Y", "Z"}

Min(S) == CHOOSE i \in S : \A j \in S : i <= j

\* The first position >= from of s whose character is not in C, Len(s) + 1
\* when there is none: where a greedy run of C that begins at from ends.
RunEnd(s, from, C) ==
    Min({i \in from .. Len(s) : s[i] \notin C} \cup {Len(s) + 1})

\* The first position >= from of s whose character is in C, else Len(s) + 1.
RunUntil(s, from, C) ==
    Min({i \in from .. Len(s) : s[i] \in C} \cup {Len(s) + 1})

\* re.match(r"(?s)\[([A-Z]+)\]\s+\S+\s+\S+\s+(.+)", s): the tag, two
\* whitespace-delimited tokens, and the rest.  When only whitespace follows
\* the second token, the last \s+ gives its last character back to (.+).
MatchTagged(s) ==
    LET n == Len(s)
        p == RunEnd(s, 2, UpperCase)            \* the "]"
        q == RunEnd(s, p + 1, Whitespace)       \* the first token
        r == RunUntil(s, q, Whitespace)         \* the whitespace after it
        t == RunEnd(s, r, Whitespace)           \* the second token
        u == RunUntil(s, t, Whitespace)         \* the whitespace after it
        v == RunEnd(s, u, Whitespace)           \* the detail
        ok == /\ n >= 1 /\ s[1] = "["
              /\ p > 2 /\ p <= n /\ s[p] = "]"
              /\ q > p + 1 /\ q <= n
              /\ r <= n
              /\ t <= n
              /\ u <= n
              /\ (v <= n \/ u < n)
    IN  IF ~ok THEN [matched |-> FALSE, level |-> <<>>, detail |-> <<>>]
        ELSE [matched |-> TRUE,
              level |-> SubSeq(s, 2, p - 1),
              detail |-> IF v <= n THEN SubSeq(s, v, n) ELSE SubSeq(s, n, n)]

RECURSIVE Spaces(_)
Spaces(n) == IF n <= 0 THEN <<>> ELSE <<" ">> \o Spaces(n - 1)

\* '%-7s' % tag
PadTag(tag) == tag \o Spaces(TagWidth - Len(tag))

EndsWithNewline(text) == Len(text) > 0 /\ text[Len(text)] = Newline

\* format_log_event of an event that has a message: the second of the
\* event's time, which strftime renders as the local time of day, and the
\* characters that follow the time; the empty string has neither.
format_log_event(event) ==
    LET msg == event.message
        ts == event.timestamp \div MillisPerSecond
        m == MatchTagged(msg)
        line == IF m.matched
                THEN <<" ">> \o PadTag(m.level) \o <<" ">> \o m.detail
                ELSE <<" ">> \o msg
    IN  IF StartsWith(msg, START)
        THEN [time |-> ts, text |-> <<" ">> \o PadTag(START) \o <<Newline>>]
        ELSE IF StartsWith(msg, END)
        THEN [time |-> ts, text |-> <<" ">> \o PadTag(END) \o <<Newline>>]
        ELSE IF StartsWith(msg, REPORT)
        THEN [text |-> <<>>]
        ELSE [time |-> ts,
              text |-> IF EndsWithNewline(line) THEN line ELSE line \o <<Newline>>]

\* format_log_event raises KeyError for an event without 'message'.
Formattable(evs) == \A i \in 1 .. Len(evs) : "message" \in DOMAIN evs[i]

function_name == "fn"

NoMessage == [log |-> <<>>]

\* create_message_body, for events that all have a message: the parts of
\* the body in their order.
create_message_body(inf, evs, requestId) ==
    [results_for |-> display_name,
     errors |-> inf.errors,
     warnings |-> inf.warnings,
     log |-> [i \in 1 .. Len(evs) |-> format_log_event(evs[i])],
     function |-> function_name,
     requestId |-> requestId,
     started |-> inf.start,
     duration |-> inf.duration]

----------------------------------------------------------------------------
(* The log source behind logs.filter_log_events *)

\* The answer to a call: the page the token names (the first page when the
\* call passes no token), with a 'nextToken' unless it is the last page.
filter_log_events(chain, request) ==
    LET n == IF "nextToken" \in DOMAIN request THEN request.nextToken ELSE 1
    IN  IF n < Len(chain)
        THEN [events |-> chain[n], nextToken |-> n + 1]
        ELSE [events |-> chain[n]]

----------------------------------------------------------------------------
(* The steps of process_lambda_events and process_lambda_run *)

CurrentId == ids[idx]

Step(name, ok) == [step |-> name, id |-> CurrentId, ok |-> ok]

\* process_lambda_events, line 202: get_request_ids, then the for loop is
\* entered with the first id (the list is not empty when no assert failed).
GetRequestIds ==
    /\ pc = "extract"
    /\ LET r == get_request_ids(batch)
       IN  IF r.error # "none"
           THEN /\ error' = r.error
                /\ pc' = "failed"
                /\ UNCHANGED <<ids, idx>>
           ELSE /\ ids' = r.ids
                /\ idx' = 1
                /\ pc' = "fetch"
                /\ error' = error
    /\ UNCHANGED <<batch, dry_run, logs, results, events, requests, info,
                   subject, message, snsCalls, responses, trace>>

\* get_run_events up to the first test of the while loop: the first call
\* passes no nextToken.
FetchFirst ==
    /\ pc = "fetch"
    /\ LET request == [filterPattern |-> CurrentId]
           answer == filter_log_events(logs[CurrentId], request)
       IN  /\ requests' = Append(requests, request)
           /\ results' = answer
           /\ events' = answer.events
           /\ pc' = IF "nextToken" \in DOMAIN answer THEN "paging" ELSE "analyze"
    /\ trace' = Append(trace, Step("fetch", TRUE))
    /\ UNCHANGED <<batch, dry_run, logs, ids, idx, info, subject, message, snsCalls,
                   responses, error>>

FetchMorePrepending ==
    /\ pc = "paging"
    /\ LET request == [filterPattern |-> CurrentId, nextToken |-> results.nextToken]
           answer == filter_log_events(logs[CurrentId], request)
       IN  /\ requests' = Append(requests, request)
           /\ results' = answer
           /\ events' = answer.events \o events
           /\ pc' = IF "nextToken" \in DOMAIN answer THEN "paging" ELSE "analyze"
    /\ UNCHANGED <<batch, dry_run, logs, ids, idx, info, subject, message, snsCalls,
                   responses, trace, error>>

\* get_run_events, one iteration of the while loop: the call passes the
\* nextToken of the last answer, and its events extend the list.
FetchMore ==
    /\ pc = "paging"
    /\ LET request == [filterPattern |-> CurrentId, nextToken |-> results.nextToken]
           answer == filter_log_events(logs[CurrentId], request)
       IN  /\ requests' = Append(requests, request)
           /\ results' = answer
           /\ events' = events \o answer.events
           /\ pc' = IF "nextToken" \in DOMAIN answer THEN "paging" ELSE "analyze"
    /\ UNCHANGED <<batch, dry_run, logs, ids, idx, info, subject, message, snsCalls,
                   responses, trace, error>>

\* The for loop of process_lambda_events after one process_lambda_run
\* returned: the next id, or the end of the batch.
LoopNext ==
    IF idx < Len(ids)
    THEN idx' = idx + 1 /\ pc' = "fetch"
    ELSE idx' = idx /\ pc' = "done"

AnalyzeIsolating ==
    /\ pc = "analyze"
    /\ LET r == analyze_run_events(events)
       IN  IF r.error # "none"
           THEN /\ error' = r.error
                /\ LoopNext
                /\ info' = info
                /\ trace' = Append(trace, Step("analyze", FALSE))
           ELSE /\ info' = r.info
                /\ pc' = "format"
                /\ trace' = Append(trace, Step("analyze", TRUE))
                /\ UNCHANGED <<idx, error>>
    /\ UNCHANGED <<batch, dry_run, logs, ids, results, events, requests,
                   subject, message, snsCalls, responses>>

\* process_lambda_run, line 169: a failed assert of analyze_run_events is
\* caught nowhere, so it ends process_lambda_events and the handler.
Analyze ==
    /\ pc = "analyze"
    /\ LET r == analyze_run_events(events)
       IN  IF r.error # "none"
           THEN /\ error' = r.error
                /\ pc' = "failed"
                /\ info' = info
                /\ trace' = Append(trace, Step("analyze", FALSE))
           ELSE /\ info' = r.info
                /\ pc' = "format"
                /\ error' = error
                /\ trace' = Append(trace, Step("analyze", TRUE))
    /\ UNCHANGED <<batch, dry_run, logs, ids, idx, results, events, requests,
                   subject, message, snsCalls, responses>>

\* publish_run_info, line 118: create_topic_message makes the subject and
\* then the body; the KeyError format_log_event raises for an event without
\* 'message' is caught nowhere and ends the handler.
Format ==
    /\ pc = "format"
    /\ IF Formattable(events)
       THEN /\ subject' = create_message_subject(info)
            /\ message' = create_message_body(info, events, CurrentId)
            /\ pc' = "publish"
            /\ error' = error
            /\ trace' = Append(trace, Step("format", TRUE))
       ELSE /\ error' = "KeyError"
            /\ pc' = "failed"
            /\ trace' = Append(trace, Step("format", FALSE))
            /\ UNCHANGED <<subject, message>>
    /\ UNCHANGED <<batch, dry_run, logs, ids, idx, results, events, requests,
                   info, snsCalls, responses>>

\* The arguments of sns.publish.
Notification ==
    [Subject |-> subject,
     Message |-> message,
     requestId |-> CurrentId,
     status |-> Status(info),
     errors |-> info.errors,
     warnings |-> info.warnings]

PublishIgnoringDryRun ==
    /\ pc = "publish"
    /\ \E ack \in SnsResponses :
          /\ snsCalls' = Append(snsCalls, [request |-> Notification, response |-> ack])
          /\ responses' = Append(responses, ack)
    /\ trace' = Append(trace, Step("publish", TRUE))
    /\ LoopNext
    /\ UNCHANGED <<batch, dry_run, logs, ids, results, events, requests, info,
                   subject, message, error>>

\* publish_run_info, lines 119-160, and the return to the for loop.
Publish ==
    /\ pc = "publish"
    /\ IF dry_run
       THEN /\ responses' = Append(responses, DummyResponse)
            /\ snsCalls' = snsCalls
       ELSE \E ack \in SnsResponses :
               /\ snsCalls' = Append(snsCalls, [request |-> Notification, response |-> ack])
               /\ responses' = Append(responses, ack)
    /\ trace' = Append(trace, Step("publish", TRUE))
    /\ LoopNext
    /\ UNCHANGED <<batch, dry_run, logs, ids, results, events, requests, info,
                   subject, message, error>>

----------------------------------------------------------------------------
(* Inputs *)

StartEvent == [timestamp |-> 1, message |-> START \o <<" ", "r">>]
EndEvent == [timestamp |-> 2, message |-> END \o <<" ", "r">>]
\* Lines in the default Lambda log format, '<level> <timestamp> <requestid> ...'.
ErrorEvent ==
    [timestamp |-> 1, message |-> ERROR \o <<" ", "t", " ", "r", " ", "x">>]
WarningEvent ==
    [timestamp |-> 2, message |-> WARNING \o <<"\t", "t", " ", "r", " ", "x", "\n">>]

\* Log traces the source may hold for a request: complete ones in one or
\* several pages, an empty one, one without END, one without START, and a
\* complete one that holds an event without message.
SampleChains ==
    { << <<StartEvent, EndEvent>> >>,
      << <<StartEvent>>, <<ErrorEvent, WarningEvent>>, <<EndEvent>> >>,
      << <<StartEvent, WarningEvent>>, <<EndEvent>> >>,
      << <<>> >>,
      << <<StartEvent>> >>,
      << <<EndEvent>> >>,
      << <<StartEvent, [timestamp |-> 1], EndEvent>> >> }

\* Batch events that carry both extracted fields, or none.
PipelineBatchEvents ==
    {e \in BatchEvents :
        "extractedFields" \in DOMAIN e =>
            DOMAIN e.extractedFields = {"type", "requestId"}}

NoLogs == [r \in RequestIds |-> << <<>> >>]

\* The state in which lambda_handler calls process_lambda_events.
InitRest ==
    /\ ids = <<>>
    /\ idx = 0
    /\ results = [events |-> <<>>]
    /\ events = <<>>
    /\ requests = <<>>
    /\ info = NoInfo
    /\ subject = <<>>
    /\ message = NoMessage
    /\ snsCalls = <<>>
    /\ responses = <<>>
    /\ trace = <<>>
    /\ error = "none"

Init ==
    /\ pc = "extract"
    /\ batch \in SeqsUpTo(PipelineBatchEvents, MaxBatch)
    /\ dry_run \in BOOLEAN
    /\ logs \in [RequestIds -> SampleChains]
    /\ InitRest

Next ==
    \/ GetRequestIds
    \/ FetchFirst
    \/ FetchMore
    \/ Analyze
    \/ Format
    \/ Publish

Spec == Init /\ [][Next]_vars

----------------------------------------------------------------------------
(* get_request_ids alone, on every batch of up to MaxBatch events *)

InitExtract ==
    /\ pc = "extract"
    /\ batch \in SeqsUpTo(BatchEvents, MaxBatch)
    /\ dry_run = FALSE
    /\ logs = NoLogs
    /\ InitRest

NextExtract == GetRequestIds

SpecExtract == InitExtract /\ [][NextExtract]_vars

(* analyze_run_events alone, on every trace of up to MaxEvents events *)

InitAnalyze ==
    /\ pc = "analyze"
    /\ batch = <<>>
    /\ dry_run = FALSE
    /\ logs = NoLogs
    /\ ids = <<"a">>
    /\ idx = 1
    /\ results = [events |-> <<>>]
    /\ events \in SeqsUpTo(LogEvents, MaxEvents)
    /\ requests = <<>>
    /\ info = NoInfo
    /\ subject = <<>>
    /\ message = NoMessage
    /\ snsCalls = <<>>
    /\ responses = <<>>
    /\ trace = <<>>
    /\ error = "none"

NextAnalyze == Analyze

SpecAnalyze == InitAnalyze /\ [][NextAnalyze]_vars

(* get_run_events alone, on every chain of up to MaxPages pages of up to   *)
(* MaxPageLen events                                                       *)

Pages == SeqsUpTo({StartEvent, EndEvent}, MaxPageLen)

Chains == SeqsUpTo(Pages, MaxPages) \ {<<>>}

InitFetch ==
    /\ pc = "fetch"
    /\ batch = <<>>
    /\ dry_run = FALSE
    /\ \E chain \in Chains : logs = [r \in RequestIds |-> chain]
    /\ ids = <<"a">>
    /\ idx = 1
    /\ results = [events |-> <<>>]
    /\ events = <<>>
    /\ requests = <<>>
    /\ info = NoInfo
    /\ subject = <<>>
    /\ message = NoMessage
    /\ snsCalls = <<>>
    /\ responses = <<>>
    /\ trace = <<>>
    /\ error = "none"

NextFetch == FetchFirst \/ FetchMore

SpecFetch == InitFetch /\ [][NextFetch]_vars

(* analysis, formatting and publishing of one run with up to MaxCount      *)
(* [ERROR] lines and up to MaxCount [WARNING] lines                        *)

RECURSIVE Repeat(_, _)
Repeat(x, n) == IF n = 0 THEN <<>> ELSE Append(Repeat(x, n - 1), x)

RunWith(e, w) ==
    <<StartEvent>> \o Repeat(ErrorEvent, e) \o Repeat(WarningEvent, w) \o <<EndEvent>>

InitPublish ==
    /\ pc = "analyze"
    /\ batch = <<>>
    /\ dry_run \in BOOLEAN
    /\ logs = NoLogs
    /\ ids = <<"a">>
    /\ idx = 1
    /\ results = [events |-> <<>>]
    /\ \E e \in 0 .. MaxCount, w \in 0 .. MaxCount : events = RunWith(e, w)
    /\ requests = <<>>
    /\ info = NoInfo
    /\ subject = <<>>
    /\ message = NoMessage
    /\ snsCalls = <<>>
    /\ responses = <<>>
    /\ trace = <<>>
    /\ error = "none"

NextPublish == Analyze \/ Format \/ Publish

SpecPublish == InitPublish /\ [][NextPublish]_vars

----------------------------------------------------------------------------
(* Claims about get_request_ids, under SpecExtract *)

Extracted == pc \in {"fetch", "failed"}

EndTyped(e) ==
    /\ "extractedFields" \in DOMAIN e
    /\ "type" \in DOMAIN e.extractedFields
    /\ e.extractedFields.type = "END"

HasRequestId(e) == "requestId" \in DOMAIN e.extractedFields

\* The requestIds the End-typed events of the batch carry, in batch order.
EndIds(evs) ==
    LET sel == SelectSeq(evs, LAMBDA e : EndTyped(e) /\ HasRequestId(e))
    IN  [i \in 1 .. Len(sel) |-> sel[i].extractedFields.requestId]

HasDuplicates(s) == \E i, j \in 1 .. Len(s) : i # j /\ s[i] = s[j]

\* C1 as stated: with no End-typed event the extraction fails with the
\* no-END-events error; otherwise, with a requestId repeated among the
\* End-typed events, it fails with the duplicate-ids error; otherwise it
\* returns exactly the requestIds of the End-typed events.
C1_AsStated ==
    Extracted =>
        IF \A i \in 1 .. Len(batch) : ~EndTyped(batch[i])
        THEN pc = "failed" /\ error = "NoEndEvents"
        ELSE IF HasDuplicates(EndIds(batch))
             THEN pc = "failed" /\ error = "DuplicateIds"
        ELSE pc = "fetch" /\ error = "none" /\ ids = EndIds(batch)

\* C1 amended: the no-END-events error is raised when no event is End-typed
\* AND carries a requestId (an End-typed event without requestId counts as
\* no End event); the rest as stated.
C1_Amended ==
    Extracted =>
        IF \A i \in 1 .. Len(batch) : ~(EndTyped(batch[i]) /\ HasRequestId(batch[i]))
        THEN pc = "failed" /\ error = "NoEndEvents"
        ELSE IF HasDuplicates(EndIds(batch))
             THEN pc = "failed" /\ error = "DuplicateIds"
        ELSE pc = "fetch" /\ error = "none" /\ ids = EndIds(batch)

\* Two ids were returned from a batch that also holds an End-typed event
\* without requestId.
C1_Witness ==
    /\ pc = "fetch"
    /\ Len(ids) = 2
    /\ \E i \in 1 .. Len(batch) : EndTyped(batch[i]) /\ ~HasRequestId(batch[i])

----------------------------------------------------------------------------
(* Claims about analyze_run_events, under SpecAnalyze *)

Analyzed == pc \in {"format", "failed"}

HasMessage(e) == "message" \in DOMAIN e

StartIdx == {i \in 1 .. Len(events) :
                HasMessage(events[i]) /\ StartsWith(events[i].message, START)}

EndIdx == {i \in 1 .. Len(events) :
              HasMessage(events[i]) /\ StartsWith(events[i].message, END)}

ErrorIdx == {i \in 1 .. Len(events) :
                HasMessage(events[i]) /\ StartsWith(events[i].message, ERROR)}

WarningIdx == {i \in 1 .. Len(events) :
                  HasMessage(events[i]) /\ StartsWith(events[i].message, WARNING)}

Last(S) == CHOOSE i \in S : \A j \in S : j <= i

\* C2: a non-empty trace with exactly one Start and exactly one End event,
\* whatever their timestamps >= 0 and their order, is analyzed successfully
\* with start and end set to the two timestamps and duration = end - start.
C2_AsStated ==
    (Analyzed /\ Len(events) > 0 /\ Cardinality(StartIdx) = 1 /\ Cardinality(EndIdx) = 1)
        => /\ pc = "format"
           /\ info.start = events[Last(StartIdx)].timestamp
           /\ info.end = events[Last(EndIdx)].timestamp
           /\ info.duration = events[Last(EndIdx)].timestamp
                                - events[Last(StartIdx)].timestamp

\* C3: an empty trace fails with the no-events error, a non-empty trace
\* without Start with the no-START error, a trace with a Start but without
\* End with the no-END error; no summary is returned.
C3_AsStated ==
    Analyzed =>
        /\ Len(events) = 0 => (pc = "failed" /\ error = "NoEvents")
        /\ (Len(events) > 0 /\ StartIdx = {}) => (pc = "failed" /\ error = "NoStart")
        /\ (Len(events) > 0 /\ StartIdx # {} /\ EndIdx = {})
               => (pc = "failed" /\ error = "NoEnd")

\* C4 as stated: a summary is returned only for a trace with exactly one
\* Start event and exactly one End event.
C4_AsStated ==
    pc = "format" => (Cardinality(StartIdx) = 1 /\ Cardinality(EndIdx) = 1)

\* C4 amended: a summary is returned only for a trace with at least one
\* Start and at least one End event; further Start or End events do not
\* make the analysis fail: start and end are the timestamps of the last
\* Start and the last End event.
C4_Amended ==
    pc = "format" =>
        /\ StartIdx # {}
        /\ EndIdx # {}
        /\ info.start = events[Last(StartIdx)].timestamp
        /\ info.end = events[Last(EndIdx)].timestamp

\* A summary was returned for a trace with two Start events.
C4_Witness == pc = "format" /\ Cardinality(StartIdx) = 2

\* C5 as stated: every summary has duration >= 0, errors >= 0 and
\* warnings >= 0, and the counts are the numbers of [ERROR] and [WARNING]
\* lines.
C5_AsStated ==
    pc = "format" =>
        /\ info.duration >= 0
        /\ info.errors >= 0
        /\ info.warnings >= 0
        /\ info.errors = Cardinality(ErrorIdx)
        /\ info.warnings = Cardinality(WarningIdx)

\* C5 amended: every summary has errors >= 0 and warnings >= 0, equal to
\* the numbers of [ERROR] and [WARNING] lines, and duration = end - start,
\* which is >= 0 exactly when the last End event's timestamp is not smaller
\* than the last Start event's.
C5_Amended ==
    pc = "format" =>
        /\ info.duration = info.end - info.start
        /\ (info.duration >= 0) <=>
               (events[Last(EndIdx)].timestamp >= events[Last(StartIdx)].timestamp)
        /\ info.errors >= 0
        /\ info.warnings >= 0
        /\ info.errors = Cardinality(ErrorIdx)
        /\ info.warnings = Cardinality(WarningIdx)

\* A summary with a negative duration and one counted [ERROR] line.
C5_Witness == pc = "format" /\ info.duration < 0 /\ info.errors = 1

----------------------------------------------------------------------------
(* Claims about the batch pipeline, under Spec *)

RECURSIVE Flatten(_)
Flatten(chain) ==
    IF chain = <<>> THEN <<>> ELSE Head(chain) \o Flatten(Tail(chain))

Terminated == pc \in {"done", "failed"}

AnalysisErrors == {"NoEvents", "NoStart", "NoEnd"}

StepsOf(name) == {k \in 1 .. Len(trace) : trace[k].step = name}

Fetched(id) == \E k \in StepsOf("fetch") : trace[k].id = id

Published(id) == \E k \in StepsOf("publish") : trace[k].id = id

\* The analysis of the log trace the source holds for id succeeds.
Analyzable(id) == analyze_run_events(Flatten(logs[id])).error = "none"

\* C6 as stated: a failed analysis ends the processing of its own
\* invocation only; when the batch has ended, every identifier of the batch
\* has been fetched, and published if its own analysis succeeds.
C6_AsStated ==
    Terminated =>
        \A i \in 1 .. Len(ids) :
            /\ Fetched(ids[i])
            /\ Analyzable(ids[i]) => Published(ids[i])

\* C6 amended: a failed analysis ends the whole batch.  The identifiers
\* before the failing one have been published, the failing one has been
\* fetched and is not published, the identifiers after it are never
\* fetched, analyzed or published, and nothing more happens.
C6_Amended ==
    error \in AnalysisErrors =>
        /\ pc = "failed"
        /\ \A i \in 1 .. idx - 1 : Published(ids[i])
        /\ Fetched(ids[idx]) /\ ~Published(ids[idx])
        /\ \A i \in idx + 1 .. Len(ids) :
               \A k \in 1 .. Len(trace) : trace[k].id # ids[i]
        /\ ~ENABLED Next

\* The analysis of the first of two identifiers failed, and the trace of
\* the second one would have been analyzed successfully.
C6_Witness ==
    /\ pc = "failed"
    /\ error \in AnalysisErrors
    /\ Len(ids) = 2
    /\ idx = 1
    /\ Analyzable(ids[2])

\* C7: in a dry run sns.publish is never called and every publish_run_info
\* call returns the same made-up response; otherwise sns.publish has been
\* called once per publish_run_info call, for that call's request, and its
\* response is what the call returned.
C7_DryRun ==
    LET calls == StepsOf("publish")
    IN  /\ Len(responses) = Cardinality(calls)
        /\ dry_run =>
              /\ snsCalls = <<>>
              /\ \A i \in 1 .. Len(responses) : responses[i] = DummyResponse
        /\ ~dry_run =>
              /\ Len(snsCalls) = Cardinality(calls)
              /\ \A i \in 1 .. Len(snsCalls) :
                    /\ snsCalls[i].request.requestId = ids[i]
                    /\ responses[i] = snsCalls[i].response

\* Two invocations were published in a dry run.
C7_Witness == dry_run /\ Len(responses) = 2 /\ pc = "done"

StepOrder == <<"fetch", "analyze", "format", "publish">>

\* C9: the identifiers are processed in the order of their End events in
\* the batch, each through fetch, analyze, format, publish in this order
\* before the next begins; nothing follows a failed analysis, and no
\* identifier is published twice.
C9_Order ==
    /\ ids # <<>> => ids = EndIds(batch)
    /\ \A k \in 1 .. Len(trace) :
          /\ ((k - 1) \div Len(StepOrder)) + 1 <= Len(ids)
          /\ trace[k].id = ids[((k - 1) \div Len(StepOrder)) + 1]
          /\ trace[k].step = StepOrder[((k - 1) % Len(StepOrder)) + 1]
          /\ ~trace[k].ok => k = Len(trace)
    /\ \A k, l \in StepsOf("publish") : trace[k].id = trace[l].id => k = l

\* Two identifiers were processed to the end, one of them from a paged
\* log trace.
C9_Witness == pc = "done" /\ Len(trace) = 8 /\ Len(requests) > 2

----------------------------------------------------------------------------
(* Claim about create_message_subject and the status, under SpecPublish *)

ErrorsSubject == <<display_name, " request completed", " with ERRORS!">>
WarningsSubject == <<display_name, " request completed", " with WARNINGS!">>
PlainSubject == <<display_name, " request completed">>

Severity(subj) ==
    IF subj = ErrorsSubject THEN "error"
    ELSE IF subj = WarningsSubject THEN "warning"
    ELSE IF subj = PlainSubject THEN "success"
    ELSE "unknown"

\* C8: errors > 0 gives the ERRORS subject and status error whatever the
\* warnings; otherwise warnings > 0 gives the WARNINGS subject and status
\* warning; otherwise the plain subject and status success; the subject and
\* the status of a notification name the same severity.
C8_Severity ==
    /\ pc \in {"publish", "done"} =>
          /\ info.errors > 0 => subject = ErrorsSubject
          /\ (info.errors = 0 /\ info.warnings > 0) => subject = WarningsSubject
          /\ (info.errors = 0 /\ info.warnings = 0) => subject = PlainSubject
    /\ \A i \in 1 .. Len(snsCalls) :
          LET n == snsCalls[i].request
          IN  /\ n.errors > 0 => n.status = "error"
              /\ (n.errors = 0 /\ n.warnings > 0) => n.status = "warning"
              /\ (n.errors = 0 /\ n.warnings = 0) => n.status = "success"
              /\ Severity(n.Subject) = n.status

\* A notification with errors and warnings was sent.
C8_Witness ==
    /\ Len(snsCalls) = 1
    /\ snsCalls[1].request.errors = 2
    /\ snsCalls[1].request.warnings = 3

----------------------------------------------------------------------------
(* Claim about get_run_events, under SpecFetch *)

\* The page a filter_log_events call asks for.
PageOf(request) ==
    IF "nextToken" \in DOMAIN request THEN request.nextToken ELSE 1

\* C10: the fetcher asks for the pages of the chain one by one, each
\* exactly once, the first call without token and every later call with the
\* token of the answer before it; it goes on until the last page and then
\* returns the pages' events concatenated in page order.
C10_Paging ==
    LET chain == logs[CurrentId]
    IN  /\ Len(requests) <= Len(chain)
        /\ \A k \in 1 .. Len(requests) : PageOf(requests[k]) = k
        /\ Len(requests) >= 1 => "nextToken" \notin DOMAIN requests[1]
        /\ \A k \in 2 .. Len(requests) :
              LET before == filter_log_events(chain, requests[k - 1])
              IN  /\ "nextToken" \in DOMAIN before
                  /\ "nextToken" \in DOMAIN requests[k]
                  /\ requests[k].nextToken = before.nextToken
        /\ pc \in {"fetch", "paging"} => ENABLED NextFetch
        /\ pc = "paging" => events = Flatten(SubSeq(chain, 1, Len(requests)))
        /\ pc = "analyze" =>
              /\ Len(requests) = Len(chain)
              /\ events = Flatten(chain)

\* Three pages were fetched, four events in all.
C10_Witness == pc = "analyze" /\ Len(requests) = 3 /\ Len(events) = 4

====
